---- MODULE Spec2Model ----
(***************************************************************************)
(* Model of the lineup optimizers of roster_opt: the F1, MLB and NBA/WNBA  *)
(* showdown optimizers, basic and advanced.  Each optimize() builds one    *)
(* integer program per iteration, hands it to CBC through PuLP, extracts   *)
(* the lineup and carries the diversity / exposure state forward.          *)
(*                                                                         *)
(* Conventions.                                                            *)
(*  - A pool row is a record with the CSV columns Name, RosterPosition     *)
(*    ('Roster Position'), TeamAbbrev, Salary and AvgPointsPerGame.  The   *)
(*    row ID is the row's index (IDs are unique in a DraftKings export).   *)
(*  - Money and points are integers.  Wherever the code multiplies by 1.5  *)
(*    the model keeps the doubled amount: total_salary of a showdown       *)
(*    lineup and every total of points are in halves (3 for a captain's    *)
(*    unit, 2 for anybody else's).                                         *)
(*  - A fraction such as min_salary_used is the pair <<num, den>>.         *)
(*  - An Optional[int] argument is a set: {} is None, {c} is the value c.  *)
(*  - A solved assignment of the binary variables is the set of the rows   *)
(*    whose variable is 1 (and, for the team variables, the set of teams). *)
(***************************************************************************)
EXTENDS Integers, Sequences, FiniteSets, TLC

VARIABLES
    opt,                \* which optimizer class was constructed
    players_df,         \* self.players_df / self.players: the pool rows
    salary_cap,         \* self.salary_cap
    max_from_team,      \* self.max_from_team / self.max_players_from_team
    min_teams,          \* self.min_teams
    self_max_player_appearances,
                        \* F1 advanced: self.max_player_appearances
    req,                \* the arguments of the running optimize() call
    pc,                 \* "constructed", "loop", "after_loop", "returned", "raised"
    i,                  \* the loop index of optimize()
    lineups,            \* lineups / all_lineups, in acceptance order
    previous_lineups,   \* previous_lineups_players / previous_lineups
    player_appearances, \* F1 advanced: row ID -> appearances so far
    statuses,           \* the status of every prob.solve() of the call, in order
    result              \* the list optimize() returned

vars == <<opt, players_df, salary_cap, max_from_team, min_teams,
          self_max_player_appearances, req, pc, i, lineups, previous_lineups,
          player_appearances, statuses, result>>

\* The largest num_lineups a call is given.
MaxLineups == 3
\* The largest num_lineups of a call with randomness: every iteration of
\* such a call draws its own projections.
MaxRandomLineups == 2

None == "None"

-----------------------------------------------------------------------------
(* Helpers *)

Row(n, p, t, s, a) ==
    [Name |-> n, RosterPosition |-> p, TeamAbbrev |-> t, Salary |-> s,
     AvgPointsPerGame |-> a]

RECURSIVE Sum(_, _)
Sum(f, S) ==
    IF S = {} THEN 0
    ELSE LET x == CHOOSE y \in S : TRUE IN f[x] + Sum(f, S \ {x})

Range(s) == {s[k] : k \in DOMAIN s}

\* The elements of a set of integers as an increasing sequence.
RECURSIVE Ascending(_)
Ascending(S) ==
    IF S = {} THEN <<>>
    ELSE LET m == CHOOSE x \in S : \A y \in S : x <= y
         IN  <<m>> \o Ascending(S \ {m})

KeyLess(p, q) == p[1] < q[1] \/ (p[1] = q[1] /\ p[2] < q[2])

\* list.sort(key=...): a stable sort of s by the pair key[k] of its k-th element.
RECURSIVE StableSortIdx(_, _)
StableSortIdx(idx, key) ==
    IF Len(idx) <= 1 THEN idx
    ELSE LET rest == StableSortIdx(Tail(idx), key)
             x == Head(idx)
             n == Cardinality({j \in 1..Len(rest) : KeyLess(key[rest[j]], key[x])})
         IN  SubSeq(rest, 1, n) \o <<x>> \o SubSeq(rest, n + 1, Len(rest))

StableSort(s, key) ==
    LET order == StableSortIdx([k \in 1..Len(s) |-> k], key)
    IN  [k \in 1..Len(s) |-> s[order[k]]]

\* The sets of k of the numbers 1..n.
KSubsets(n, k) == {S \in SUBSET (1..n) : Cardinality(S) = k}

-----------------------------------------------------------------------------
(* The CSV files the optimizers are constructed from *)

\* A DraftKings F1 export: a driver has a CPT row and a D row of the same
\* Name; constructors are CNSTR rows.
F1CsvA ==
    << Row("VER", "CPT",   "RBULL", 9, 12),
       Row("VER", "D",     "RBULL", 6, 12),
       Row("PER", "D",     "RBULL", 4, 8),
       Row("HAM", "CPT",   "MERC", 8, 10),
       Row("HAM", "D",     "MERC", 5, 10),
       Row("RUS", "D",     "MERC", 4, 7),
       Row("LEC", "D",     "FERR", 5, 9),
       Row("SAI", "D",     "FERR", 3, 6),
       Row("Red Bull", "CNSTR", "RBULL", 4, 9),
       Row("Mercedes", "CNSTR", "MERC", 3, 7) >>

\* The shape of the test fixtures: every row has its own Name; the second
\* constructor's team has no driver in the pool.
F1CsvB ==
    << Row("Driver1", "CPT", "MERC", 7, 11),
       Row("Driver2", "CPT", "FERR", 6, 9),
       Row("Driver3", "D",   "MERC", 5, 8),
       Row("Driver4", "D",   "MERC", 4, 7),
       Row("Driver5", "D",   "FERR", 4, 6),
       Row("Driver6", "D",   "FERR", 3, 6),
       Row("Driver7", "D",   "MCLA", 3, 4),
       Row("Constructor1", "CNSTR", "MERC", 4, 8),
       Row("Constructor2", "CNSTR", "ALPI", 3, 6) >>

F1Csvs == {F1CsvA, F1CsvB}
F1Caps == {24, 29}

\* An MLB slate of three teams; the rows of the file are in no particular
\* order of position or projection.
MLBCsvA ==
    << Row("Sale",     "P",  "BOS", 4, 8),
       Row("Cole",     "P",  "NYY", 5, 10),
       Row("Kershaw",  "P",  "LAD", 3, 5),
       Row("Story",    "SS", "BOS", 4, 8),
       Row("Trevino",  "C",  "NYY", 3, 6),
       Row("Casas",    "1B", "BOS", 3, 7),
       Row("Lux",      "2B", "LAD", 3, 5),
       Row("LeMahieu", "3B", "NYY", 3, 6),
       Row("Rojas",    "SS", "LAD", 2, 4),
       Row("Verdugo",  "OF", "NYY", 2, 3),
       Row("Judge",    "OF", "NYY", 4, 9),
       Row("Duran",    "OF", "BOS", 3, 7),
       Row("Betts",    "OF", "LAD", 3, 6) >>

MLBCsvs == {MLBCsvA}
MLBCaps == {28, 33}

\* A showdown slate in the shape of the test fixtures: one row per athlete.
\* (The showdown code reads Name, TeamAbbrev, Salary and AvgPointsPerGame.)
SDCsvA ==
    << Row("Player1", "UTIL", "LVA", 10, 40),
       Row("Player2", "UTIL", "LVA", 9, 35),
       Row("Player3", "UTIL", "LVA", 8, 30),
       Row("Player4", "UTIL", "LVA", 7, 25),
       Row("Player5", "UTIL", "NYL", 6, 20),
       Row("Player6", "UTIL", "NYL", 5, 15),
       Row("Player7", "UTIL", "NYL", 4, 10),
       Row("Player8", "UTIL", "NYL", 3, 5) >>

\* A slate in which one athlete is listed on two rows, as a DraftKings
\* showdown export lists her: a CPT row and a UTIL row.
SDCsvB ==
    << Row("Wilson",  "CPT",  "LVA", 9, 40),
       Row("Wilson",  "UTIL", "LVA", 6, 40),
       Row("Gray",    "UTIL", "LVA", 7, 30),
       Row("Young",   "UTIL", "LVA", 5, 25),
       Row("Stewart", "UTIL", "NYL", 8, 35),
       Row("Ionescu", "UTIL", "NYL", 6, 30),
       Row("Jones",   "UTIL", "NYL", 4, 27) >>

\* Too few rows for a lineup.
SDCsvC ==
    << Row("Player1", "UTIL", "LVA", 10, 40),
       Row("Player2", "UTIL", "LVA", 9, 35),
       Row("Player3", "UTIL", "NYL", 8, 30),
       Row("Player4", "UTIL", "NYL", 7, 25),
       Row("Player5", "UTIL", "NYL", 6, 20) >>

SDCsvs == {SDCsvA, SDCsvB, SDCsvC}
SDCaps == {30, 45}

\* The assignments with k of the n variables at 1, for the pool lengths n and
\* the roster sizes k in use: what a "total number of roster spots"
\* constraint leaves of the 2^n assignments.
RosterAssignments ==
    [n \in {Len(csv) : csv \in F1Csvs \cup MLBCsvs \cup SDCsvs} |->
        [k \in {1, 5, 6, 10} |-> KSubsets(n, k)]]

-----------------------------------------------------------------------------
(* State shared by the optimizers *)

IDs == 1..Len(players_df)
Name(r) == players_df[r].Name
Position(r) == players_df[r].RosterPosition
Team(r) == players_df[r].TeamAbbrev
Salary(r) == players_df[r].Salary
AvgPointsPerGame(r) == players_df[r].AvgPointsPerGame

\* self.teams = players_df['TeamAbbrev'].unique()
teams == {Team(r) : r \in IDs}

\* The statuses of pulp.LpStatus that a solve of these models can end with;
\* "Undefined" stands for a solve CBC did not complete.
Optimal == "Optimal"
Infeasible == "Infeasible"
Undefined == "Undefined"

\* prev_lineup is a list of row IDs; the number of them selected in S.
SharedRows(prev_lineup, S) ==
    Cardinality({k \in DOMAIN prev_lineup : prev_lineup[k] \in S})

-----------------------------------------------------------------------------
(* F1 *)

F1_required_positions == [CPT |-> 1, D |-> 4, CNSTR |-> 1]
F1_roster_spots ==
    Sum(F1_required_positions, DOMAIN F1_required_positions)
F1_position_order == [CPT |-> 0, D |-> 1, CNSTR |-> 2]

\* CaptainPoints for a CPT row, AvgPointsPerGame otherwise (in halves).
F1Points(r) ==
    IF Position(r) = "CPT" THEN 3 * AvgPointsPerGame(r)
    ELSE 2 * AvgPointsPerGame(r)

F1Objective(S) == Sum([r \in IDs |-> F1Points(r)], S)
TotalSalary(S) == Sum([r \in IDs |-> Salary(r)], S)

F1SalaryCap(S) == TotalSalary(S) <= salary_cap

\* Mutant: only the first position of required_positions is constrained.
F1PositionRequirements_CaptainOnly(S) ==
    Cardinality({r \in S : Position(r) = "CPT"}) = F1_required_positions["CPT"]

F1PositionRequirements(S) ==
    \A position \in DOMAIN F1_required_positions :
        Cardinality({r \in S : Position(r) = position})
            = F1_required_positions[position]

F1RosterSpots(S) == Cardinality(S) = F1_roster_spots

\* Basic: every Name of the pool with more than one row.
F1BasicOneVersion(S) ==
    \A driver_name \in {Name(r) : r \in IDs} :
        LET driver_ids == {r \in IDs : Name(r) = driver_name}
        IN  Cardinality(driver_ids) > 1 => Cardinality(driver_ids \cap S) <= 1

F1BasicUniqueness(S) ==
    \A k \in DOMAIN previous_lineups :
        SharedRows(previous_lineups[k], S) <= Len(previous_lineups[k]) - 2

F1BasicFeasible(S) ==
    /\ F1RosterSpots(S)
    /\ F1PositionRequirements(S)
    /\ F1SalaryCap(S)
    /\ F1BasicOneVersion(S)
    /\ F1BasicUniqueness(S)

F1BasicSolutions ==
    {S \in RosterAssignments[Len(players_df)][F1_roster_spots] :
        F1BasicFeasible(S)}

\* The solutions of the largest objective: CBC returns any one of them.
F1BasicOptimal ==
    LET solutions == F1BasicSolutions
        value == [S \in solutions |-> F1Objective(S)]
    IN  {S \in solutions : \A S2 \in solutions : value[S2] <= value[S]}

\* The lineup_data of the selected rows.
F1LineupData(S) ==
    LET selected_player_ids == Ascending(S)
        key == [k \in 1..Len(selected_player_ids) |->
                  << F1_position_order[Position(selected_player_ids[k])],
                     0 - F1Points(selected_player_ids[k]) >>]
    IN  [ids          |-> selected_player_ids,
         players      |-> StableSort(selected_player_ids, key),
         total_salary |-> TotalSalary(S),
         total_points |-> F1Objective(S)]

\* lineups.sort(key=lambda x: x['total_points'], reverse=True)
SortByTotalPoints(ls) ==
    StableSort(ls, [k \in 1..Len(ls) |-> <<0 - ls[k].total_points, 0>>])

\* Mutant: a solve that did not complete is reported as Infeasible.
NotOptimalStatuses_FailureAsInfeasible(solutions) == {Infeasible, Undefined}

\* What prob.solve() may leave in prob.status when it has not found an
\* optimum: Infeasible only for a model without solution, Undefined whenever
\* the backend fails.
NotOptimalStatuses(solutions) ==
    IF solutions = {} THEN {Infeasible, Undefined} ELSE {Undefined}

NoCall == [num_lineups |-> 0]

F1Basic_optimize ==
    /\ pc = "constructed" /\ opt = "F1Basic"
    /\ \E num_lineups \in 0..MaxLineups :
          req' = [num_lineups |-> num_lineups]
    /\ pc' = "loop" /\ i' = 0
    /\ lineups' = <<>> /\ previous_lineups' = <<>> /\ statuses' = <<>>
    /\ UNCHANGED <<opt, players_df, salary_cap, max_from_team, min_teams,
                   self_max_player_appearances, player_appearances, result>>

F1Basic_Accept ==
    /\ pc = "loop" /\ opt = "F1Basic" /\ i < req.num_lineups
    /\ \E S \in F1BasicOptimal :
          /\ previous_lineups' = Append(previous_lineups, Ascending(S))
          /\ lineups' = Append(lineups, F1LineupData(S))
    /\ statuses' = Append(statuses, Optimal)
    /\ i' = i + 1
    /\ UNCHANGED <<opt, players_df, salary_cap, max_from_team, min_teams,
                   self_max_player_appearances, req, pc, player_appearances,
                   result>>

\* Mutant: the iteration is tried again after a solve that was not Optimal.
F1Basic_NotOptimal_Retry ==
    /\ pc = "loop" /\ opt = "F1Basic" /\ i < req.num_lineups
    /\ \E st \in NotOptimalStatuses(F1BasicSolutions) :
          statuses' = Append(statuses, st)
    /\ UNCHANGED <<opt, players_df, salary_cap, max_from_team, min_teams,
                   self_max_player_appearances, req, pc, i, lineups,
                   previous_lineups, player_appearances, result>>

\* "Could not find optimal solution": continue.
F1Basic_NotOptimal ==
    /\ pc = "loop" /\ opt = "F1Basic" /\ i < req.num_lineups
    /\ \E st \in NotOptimalStatuses(F1BasicSolutions) :
          statuses' = Append(statuses, st)
    /\ i' = i + 1
    /\ UNCHANGED <<opt, players_df, salary_cap, max_from_team, min_teams,
                   self_max_player_appearances, req, pc, lineups,
                   previous_lineups, player_appearances, result>>

F1Basic_Return ==
    /\ pc = "loop" /\ opt = "F1Basic" /\ i = req.num_lineups
    /\ result' = SortByTotalPoints(lineups)
    /\ pc' = "returned"
    /\ UNCHANGED <<opt, players_df, salary_cap, max_from_team, min_teams,
                   self_max_player_appearances, req, i, lineups,
                   previous_lineups, player_appearances, statuses>>

-----------------------------------------------------------------------------
(* F1 advanced *)

\* The drivers (not the constructors) of a team.
F1TeamPlayers(team) == {r \in IDs : Team(r) = team /\ Position(r) # "CNSTR"}

F1MinSalaryUsed(S) ==
    TotalSalary(S) * req.min_salary_used[2] >= salary_cap * req.min_salary_used[1]

\* T is the set of the teams whose team_vars is 1.
F1TeamLink(S, T) ==
    \A team \in teams :
        LET team_players == F1TeamPlayers(team)
        IN  team_players # {} =>
              /\ \A player \in team_players : player \in S => team \in T
              /\ Cardinality(team_players \cap S) >= (IF team \in T THEN 1 ELSE 0)

F1MaxFromTeam(S) ==
    \A team \in teams :
        LET team_players == F1TeamPlayers(team)
        IN  team_players # {} =>
              Cardinality(team_players \cap S) <= max_from_team

F1MinTeams(T) == Cardinality(T) >= min_teams

Min(a, b) == IF a <= b THEN a ELSE b

\* Mutant: a stack_count above the number of the team's drivers adds no
\* constraint.
F1Stacking_DroppedWhenShort(S) ==
    (req.stack_team # None /\ req.stack_team \in teams) =>
        LET stack_team_players == F1TeamPlayers(req.stack_team)
        IN  req.stack_count <= Cardinality(stack_team_players) =>
              Cardinality(stack_team_players \cap S) >= req.stack_count

F1Stacking(S) ==
    (req.stack_team # None /\ req.stack_team \in teams) =>
        LET stack_team_players == F1TeamPlayers(req.stack_team)
        IN  stack_team_players # {} =>
              Cardinality(stack_team_players \cap S)
                  >= Min(req.stack_count, Cardinality(stack_team_players))

\* Mutant: the constraint is added for Names of more than two rows only.
F1AdvOneVersion_MoreThanTwo(S) ==
    \A driver_name \in {Name(r) : r \in {x \in IDs : Position(x) # "CNSTR"}} :
        LET driver_ids == {r \in IDs : Name(r) = driver_name}
        IN  Cardinality(driver_ids) > 2 => Cardinality(driver_ids \cap S) <= 1

\* Advanced: the Names of the CPT and D rows only.
F1AdvOneVersion(S) ==
    \A driver_name \in {Name(r) : r \in {x \in IDs : Position(x) # "CNSTR"}} :
        LET driver_ids == {r \in IDs : Name(r) = driver_name}
        IN  Cardinality(driver_ids) > 1 => Cardinality(driver_ids \cap S) <= 1

\* Mutant: a player is excluded one appearance too late.
F1AppearanceLimit_OffByOne(S) ==
    \A max_player_appearances \in req.max_player_appearances :
        \A player_id \in DOMAIN player_appearances :
            player_appearances[player_id] > max_player_appearances
                => player_id \notin S

\* Mutant: without the argument, the cap given to the constructor applies.
F1AppearanceLimit_ConstructorDefault(S) ==
    LET caps == IF req.max_player_appearances = {}
                THEN {self_max_player_appearances}
                ELSE req.max_player_appearances
    IN  \A max_player_appearances \in caps :
            \A player_id \in DOMAIN player_appearances :
                player_appearances[player_id] >= max_player_appearances
                    => player_id \notin S

F1AppearanceLimit(S) ==
    \A max_player_appearances \in req.max_player_appearances :
        \A player_id \in DOMAIN player_appearances :
            player_appearances[player_id] >= max_player_appearances
                => player_id \notin S

\* Mutant: only the latest lineup is compared with.
F1AdvUniqueness_LastOnly(S) ==
    previous_lineups # <<>> =>
        SharedRows(previous_lineups[Len(previous_lineups)], S)
            <= Len(previous_lineups[Len(previous_lineups)]) - req.lineup_diversity

F1AdvUniqueness(S) ==
    \A k \in DOMAIN previous_lineups :
        SharedRows(previous_lineups[k], S)
            <= Len(previous_lineups[k]) - req.lineup_diversity

\* The constraints on the player variables alone.
F1AdvPlayerConstraints(S) ==
    /\ F1RosterSpots(S)
    /\ F1PositionRequirements(S)
    /\ F1SalaryCap(S)
    /\ F1MinSalaryUsed(S)
    /\ F1MaxFromTeam(S)
    /\ F1Stacking(S)
    /\ F1AdvOneVersion(S)
    /\ F1AppearanceLimit(S)
    /\ F1AdvUniqueness(S)

\* The constraints that involve the team variables.
F1AdvTeamConstraints(S, T) ==
    /\ F1TeamLink(S, T)
    /\ F1MinTeams(T)

F1AdvSolutions ==
    {S \in RosterAssignments[Len(players_df)][F1_roster_spots] :
        /\ F1AdvPlayerConstraints(S)
        /\ \E T \in SUBSET teams : F1AdvTeamConstraints(S, T)}

F1AdvOptimal ==
    LET solutions == F1AdvSolutions
        value == [S \in solutions |-> F1Objective(S)]
    IN  {S \in solutions : \A S2 \in solutions : value[S2] <= value[S]}

\* Mutant: the constructor's team is added to teams_used as well.
F1AdvLineupData_AllTeams(S) ==
    F1LineupData(S) @@ [teams_used |-> {Team(r) : r \in S}]

F1AdvLineupData(S) ==
    F1LineupData(S) @@
    [teams_used |-> {Team(r) : r \in {x \in S : Position(x) # "CNSTR"}}]

F1StackRequests == {<<None, 2>>, <<"MERC", 3>>, <<"ALPI", 2>>, <<"MCLA", 2>>}
F1MinSalaryFractions == {<<1, 2>>, <<19, 20>>}
F1Diversities == {1, 2, 3}
F1AppearanceCaps == {{}, {1}, {2}}

F1Adv_optimize ==
    /\ pc = "constructed" /\ opt = "F1Adv"
    /\ \E num_lineups \in 0..MaxLineups, stack \in F1StackRequests,
          min_salary_used \in F1MinSalaryFractions,
          lineup_diversity \in F1Diversities,
          max_player_appearances \in F1AppearanceCaps :
          req' = [num_lineups |-> num_lineups,
                  stack_team |-> stack[1], stack_count |-> stack[2],
                  min_salary_used |-> min_salary_used,
                  lineup_diversity |-> lineup_diversity,
                  max_player_appearances |-> max_player_appearances]
    /\ pc' = "loop" /\ i' = 0
    /\ lineups' = <<>> /\ previous_lineups' = <<>> /\ statuses' = <<>>
    /\ player_appearances' = [player_id \in IDs |-> 0]
    /\ UNCHANGED <<opt, players_df, salary_cap, max_from_team, min_teams,
                   self_max_player_appearances, result>>

\* Mutant: an accepted lineup is stored but its members are not counted.
F1Adv_Accept_NotCounted ==
    /\ pc = "loop" /\ opt = "F1Adv" /\ i < req.num_lineups
    /\ \E S \in F1AdvOptimal :
          /\ previous_lineups' = Append(previous_lineups, Ascending(S))
          /\ lineups' = Append(lineups, F1AdvLineupData(S))
    /\ statuses' = Append(statuses, Optimal)
    /\ i' = i + 1
    /\ UNCHANGED <<opt, players_df, salary_cap, max_from_team, min_teams,
                   self_max_player_appearances, req, pc, result,
                   player_appearances>>

F1Adv_Accept ==
    /\ pc = "loop" /\ opt = "F1Adv" /\ i < req.num_lineups
    /\ \E S \in F1AdvOptimal :
          /\ previous_lineups' = Append(previous_lineups, Ascending(S))
          /\ player_appearances' =
                [player_id \in IDs |->
                    IF player_id \in S THEN player_appearances[player_id] + 1
                    ELSE player_appearances[player_id]]
          /\ lineups' = Append(lineups, F1AdvLineupData(S))
    /\ statuses' = Append(statuses, Optimal)
    /\ i' = i + 1
    /\ UNCHANGED <<opt, players_df, salary_cap, max_from_team, min_teams,
                   self_max_player_appearances, req, pc, result>>

\* "Could not find optimal solution": return [] when i = 0, else break.
F1Adv_NotOptimal ==
    /\ pc = "loop" /\ opt = "F1Adv" /\ i < req.num_lineups
    /\ \E st \in NotOptimalStatuses(F1AdvSolutions) :
          statuses' = Append(statuses, st)
    /\ IF i = 0
       THEN pc' = "returned" /\ result' = <<>>
       ELSE pc' = "after_loop" /\ result' = result
    /\ UNCHANGED <<opt, players_df, salary_cap, max_from_team, min_teams,
                   self_max_player_appearances, req, i, lineups,
                   previous_lineups, player_appearances>>

F1Adv_Return ==
    /\ opt = "F1Adv"
    /\ \/ pc = "loop" /\ i = req.num_lineups
       \/ pc = "after_loop"
    /\ result' = SortByTotalPoints(lineups)
    /\ pc' = "returned"
    /\ UNCHANGED <<opt, players_df, salary_cap, max_from_team, min_teams,
                   self_max_player_appearances, req, i, lineups,
                   previous_lineups, player_appearances, statuses>>

-----------------------------------------------------------------------------
(* MLB *)

MLB_required_positions ==
    [P |-> 2, C |-> 1, B1 |-> 1, B2 |-> 1, B3 |-> 1, SS |-> 1, OF |-> 3]
\* The record fields B1, B2, B3 are the positions '1B', '2B', '3B'.
MLBPositionName ==
    [P |-> "P", C |-> "C", B1 |-> "1B", B2 |-> "2B", B3 |-> "3B",
     SS |-> "SS", OF |-> "OF"]
MLB_roster_spots ==
    Sum(MLB_required_positions, DOMAIN MLB_required_positions)
MLB_position_order ==
    [p \in {"P", "C", "1B", "2B", "3B", "SS", "OF"} |->
        CASE p = "P" -> 0 [] p = "C" -> 1 [] p = "1B" -> 2 [] p = "2B" -> 3
          [] p = "3B" -> 4 [] p = "SS" -> 5 [] p = "OF" -> 6]

MLBObjective(S) == Sum([r \in IDs |-> AvgPointsPerGame(r)], S)

MLBSalaryCap(S) == TotalSalary(S) <= salary_cap

MLBPositionRequirements(S) ==
    \A position \in DOMAIN MLB_required_positions :
        Cardinality({r \in S : Position(r) = MLBPositionName[position]})
            = MLB_required_positions[position]

MLBRosterSpots(S) == Cardinality(S) = MLB_roster_spots

\* Mutant: only the cut of the latest lineup is kept by the next model.
MLBBasicUniqueness_LastOnly(S) ==
    \A k \in DOMAIN previous_lineups :
        k = Len(previous_lineups) =>
            SharedRows(previous_lineups[k], S) <= Len(previous_lineups[k]) - 3

MLBBasicUniqueness(S) ==
    \A k \in DOMAIN previous_lineups :
        SharedRows(previous_lineups[k], S) <= Len(previous_lineups[k]) - 3

MLBBasicFeasible(S) ==
    /\ MLBRosterSpots(S)
    /\ MLBPositionRequirements(S)
    /\ MLBSalaryCap(S)
    /\ MLBBasicUniqueness(S)

MLBBasicSolutions ==
    {S \in RosterAssignments[Len(players_df)][MLB_roster_spots] :
        MLBBasicFeasible(S)}

MLBBasicOptimal ==
    LET solutions == MLBBasicSolutions
        value == [S \in solutions |-> MLBObjective(S)]
    IN  {S \in solutions : \A S2 \in solutions : value[S2] <= value[S]}

\* Mutant: the players list is sorted by position only.
MLBLineupData_ByPositionOnly(S) ==
    LET selected_player_ids == Ascending(S)
        key == [k \in 1..Len(selected_player_ids) |->
                  << MLB_position_order[Position(selected_player_ids[k])], 0 >>]
    IN  [ids          |-> selected_player_ids,
         players      |-> StableSort(selected_player_ids, key),
         total_salary |-> TotalSalary(S),
         total_points |-> MLBObjective(S)]

MLBLineupData(S) ==
    LET selected_player_ids == Ascending(S)
        key == [k \in 1..Len(selected_player_ids) |->
                  << MLB_position_order[Position(selected_player_ids[k])],
                     0 - AvgPointsPerGame(selected_player_ids[k]) >>]
    IN  [ids          |-> selected_player_ids,
         players      |-> StableSort(selected_player_ids, key),
         total_salary |-> TotalSalary(S),
         total_points |-> MLBObjective(S)]

MLBBasic_optimize ==
    /\ pc = "constructed" /\ opt = "MLBBasic"
    /\ \E num_lineups \in 0..MaxLineups :
          req' = [num_lineups |-> num_lineups]
    /\ pc' = "loop" /\ i' = 0
    /\ lineups' = <<>> /\ previous_lineups' = <<>> /\ statuses' = <<>>
    /\ UNCHANGED <<opt, players_df, salary_cap, max_from_team, min_teams,
                   self_max_player_appearances, player_appearances, result>>

MLBBasic_Accept ==
    /\ pc = "loop" /\ opt = "MLBBasic" /\ i < req.num_lineups
    /\ \E S \in MLBBasicOptimal :
          /\ previous_lineups' = Append(previous_lineups, Ascending(S))
          /\ lineups' = Append(lineups, MLBLineupData(S))
    /\ statuses' = Append(statuses, Optimal)
    /\ i' = i + 1
    /\ UNCHANGED <<opt, players_df, salary_cap, max_from_team, min_teams,
                   self_max_player_appearances, req, pc, player_appearances,
                   result>>

\* "Could not find optimal solution": continue.
MLBBasic_NotOptimal ==
    /\ pc = "loop" /\ opt = "MLBBasic" /\ i < req.num_lineups
    /\ \E st \in NotOptimalStatuses(MLBBasicSolutions) :
          statuses' = Append(statuses, st)
    /\ i' = i + 1
    /\ UNCHANGED <<opt, players_df, salary_cap, max_from_team, min_teams,
                   self_max_player_appearances, req, pc, lineups,
                   previous_lineups, player_appearances, result>>

MLBBasic_Return ==
    /\ pc = "loop" /\ opt = "MLBBasic" /\ i = req.num_lineups
    /\ result' = SortByTotalPoints(lineups)
    /\ pc' = "returned"
    /\ UNCHANGED <<opt, players_df, salary_cap, max_from_team, min_teams,
                   self_max_player_appearances, req, i, lineups,
                   previous_lineups, player_appearances, statuses>>

-----------------------------------------------------------------------------
(* MLB advanced *)

MLBTeamPlayers(team) == {r \in IDs : Team(r) = team}

MLBMinSalaryUsed(S) ==
    TotalSalary(S) * req.min_salary_used[2] >= salary_cap * req.min_salary_used[1]

MLBTeamLink(S, T) ==
    \A team \in teams :
        LET team_players == MLBTeamPlayers(team)
        IN  /\ \A player \in team_players : player \in S => team \in T
            /\ Cardinality(team_players \cap S) >= (IF team \in T THEN 1 ELSE 0)

MLBMaxFromTeam(S) ==
    \A team \in teams :
        Cardinality(MLBTeamPlayers(team) \cap S) <= max_from_team

MLBMinTeams(T) == Cardinality(T) >= min_teams

MLBStacking(S) ==
    (req.stack_team # None /\ req.stack_team \in teams) =>
        Cardinality(MLBTeamPlayers(req.stack_team) \cap S) >= req.stack_count

MLBAdvUniqueness(S) ==
    \A k \in DOMAIN previous_lineups :
        SharedRows(previous_lineups[k], S)
            <= Len(previous_lineups[k]) - req.lineup_diversity

MLBAdvPlayerConstraints(S) ==
    /\ MLBRosterSpots(S)
    /\ MLBPositionRequirements(S)
    /\ MLBSalaryCap(S)
    /\ MLBMinSalaryUsed(S)
    /\ MLBMaxFromTeam(S)
    /\ MLBStacking(S)
    /\ MLBAdvUniqueness(S)

MLBAdvTeamConstraints(S, T) ==
    /\ MLBTeamLink(S, T)
    /\ MLBMinTeams(T)

MLBAdvSolutions ==
    {S \in RosterAssignments[Len(players_df)][MLB_roster_spots] :
        /\ MLBAdvPlayerConstraints(S)
        /\ \E T \in SUBSET teams : MLBAdvTeamConstraints(S, T)}

MLBAdvOptimal ==
    LET solutions == MLBAdvSolutions
        value == [S \in solutions |-> MLBObjective(S)]
    IN  {S \in solutions : \A S2 \in solutions : value[S2] <= value[S]}

MLBAdvLineupData(S) ==
    MLBLineupData(S) @@ [teams_used |-> {Team(r) : r \in S}]

MLBStackRequests == {<<None, 4>>, <<"LAD", 4>>, <<"LAD", 5>>}
MLBMinSalaryFractions == {<<1, 2>>, <<19, 20>>}
MLBDiversities == {1, 2, 3}

MLBAdv_optimize ==
    /\ pc = "constructed" /\ opt = "MLBAdv"
    /\ \E num_lineups \in 0..MaxLineups, stack \in MLBStackRequests,
          min_salary_used \in MLBMinSalaryFractions,
          lineup_diversity \in MLBDiversities :
          req' = [num_lineups |-> num_lineups,
                  stack_team |-> stack[1], stack_count |-> stack[2],
                  min_salary_used |-> min_salary_used,
                  lineup_diversity |-> lineup_diversity]
    /\ pc' = "loop" /\ i' = 0
    /\ lineups' = <<>> /\ previous_lineups' = <<>> /\ statuses' = <<>>
    /\ UNCHANGED <<opt, players_df, salary_cap, max_from_team, min_teams,
                   self_max_player_appearances, player_appearances, result>>

\* optimize(self, num_lineups, stack_team, stack_count, min_salary_used,
\* lineup_diversity) has no max_player_appearances parameter: a call that
\* passes one, as tests/test_advanced_optimizer.py does, raises TypeError
\* before the body runs.
MLBAppearanceCaps == {1, 2}

MLBAdv_optimize_TypeError ==
    /\ pc = "constructed" /\ opt = "MLBAdv"
    /\ \E num_lineups \in 0..MaxLineups, cap \in MLBAppearanceCaps :
          req' = [num_lineups |-> num_lineups,
                  stack_team |-> None, stack_count |-> 4,
                  min_salary_used |-> <<19, 20>>,
                  lineup_diversity |-> 3,
                  max_player_appearances |-> cap]
    /\ pc' = "raised"
    /\ UNCHANGED <<opt, players_df, salary_cap, max_from_team, min_teams,
                   self_max_player_appearances, i, lineups, previous_lineups,
                   player_appearances, statuses, result>>

MLBAdv_Accept ==
    /\ pc = "loop" /\ opt = "MLBAdv" /\ i < req.num_lineups
    /\ \E S \in MLBAdvOptimal :
          /\ previous_lineups' = Append(previous_lineups, Ascending(S))
          /\ lineups' = Append(lineups, MLBAdvLineupData(S))
    /\ statuses' = Append(statuses, Optimal)
    /\ i' = i + 1
    /\ UNCHANGED <<opt, players_df, salary_cap, max_from_team, min_teams,
                   self_max_player_appearances, req, pc, player_appearances,
                   result>>

\* "Could not find optimal solution": return [] when i = 0, else break.
MLBAdv_NotOptimal ==
    /\ pc = "loop" /\ opt = "MLBAdv" /\ i < req.num_lineups
    /\ \E st \in NotOptimalStatuses(MLBAdvSolutions) :
          statuses' = Append(statuses, st)
    /\ IF i = 0
       THEN pc' = "returned" /\ result' = <<>>
       ELSE pc' = "after_loop" /\ result' = result
    /\ UNCHANGED <<opt, players_df, salary_cap, max_from_team, min_teams,
                   self_max_player_appearances, req, i, lineups,
                   previous_lineups, player_appearances>>

MLBAdv_Return ==
    /\ opt = "MLBAdv"
    /\ \/ pc = "loop" /\ i = req.num_lineups
       \/ pc = "after_loop"
    /\ result' = SortByTotalPoints(lineups)
    /\ pc' = "returned"
    /\ UNCHANGED <<opt, players_df, salary_cap, max_from_team, min_teams,
                   self_max_player_appearances, req, i, lineups,
                   previous_lineups, player_appearances, statuses>>

-----------------------------------------------------------------------------
(* NBA/WNBA showdown *)

\* An assignment A is the record of the rows whose captain_vars is 1 and of
\* the rows whose utility_vars is 1.
SDAssignments ==
    {[captain_vars |-> C, utility_vars |-> U] :
        C \in RosterAssignments[Len(players_df)][1],
        U \in RosterAssignments[Len(players_df)][5]}

\* captain_vars[r] + utility_vars[r]
SDSelected(A, r) ==
    (IF r \in A.captain_vars THEN 1 ELSE 0)
        + (IF r \in A.utility_vars THEN 1 ELSE 0)

SDSelectedAmong(A, rows) == Sum([r \in IDs |-> SDSelected(A, r)], rows)

\* Points in halves: captain_multiplier = 1.5 for the captain.
SDObjective(A) ==
    3 * Sum([r \in IDs |-> AvgPointsPerGame(r)], A.captain_vars)
        + 2 * Sum([r \in IDs |-> AvgPointsPerGame(r)], A.utility_vars)

\* Salary in halves: the captain costs 1.5x.
SDSalary(A) ==
    3 * Sum([r \in IDs |-> Salary(r)], A.captain_vars)
        + 2 * Sum([r \in IDs |-> Salary(r)], A.utility_vars)

SDExactly1Captain(A) == Cardinality(A.captain_vars) = 1
SDExactly5Utility(A) == Cardinality(A.utility_vars) = 5
SDNoDuplicatePlayer(A) == \A r \in IDs : SDSelected(A, r) <= 1
\* Mutant: the captain charged the listed salary.
SDSalaryCap_CaptainAtListedSalary(A) ==
    2 * Sum([r \in IDs |-> Salary(r)], A.captain_vars \cup A.utility_vars)
        <= 2 * salary_cap

SDSalaryCap(A) == SDSalary(A) <= 2 * salary_cap

SDDiversity(A) ==
    \A j \in DOMAIN previous_lineups :
        SDSelectedAmong(A, {r \in IDs :
                              Name(r) \in Range(previous_lineups[j].player_names)})
            <= 6 - req.player_diversity

\* current_exposure of a name: the previous lineups that list it.
SDCurrentExposure(player_name) ==
    Cardinality({j \in DOMAIN previous_lineups :
                    player_name \in Range(previous_lineups[j].player_names)})

\* int(max_exposure * num_lineups)
SDMaxAllowed(max_exposure) ==
    (max_exposure[1] * req.num_lineups) \div max_exposure[2]

\* Mutant: the rows are forced to 0 one appearance too late.
SDExposureApplies_OffByOne(player_name) ==
    LET max_exposure == req.exposure_constraints[player_name]
    IN  \/ max_exposure[1] = 0
        \/ SDCurrentExposure(player_name) > SDMaxAllowed(max_exposure)

\* Whether this iteration adds a constraint for the rows of player_name.
SDExposureApplies(player_name) ==
    LET max_exposure == req.exposure_constraints[player_name]
    IN  \/ max_exposure[1] = 0
        \/ SDCurrentExposure(player_name) >= SDMaxAllowed(max_exposure)

SDExposure(A) ==
    \A player_name \in DOMAIN req.exposure_constraints :
        SDExposureApplies(player_name) =>
            \A r \in {x \in IDs : Name(x) = player_name} : SDSelected(A, r) = 0

\* The constraints of one player_name all carry the name Exclude_<name> or
\* Max_Exposure_<name>: with two rows of that Name the second prob += finds
\* the name taken and PuLP raises PulpError (overlapping constraint names).
SDExposureNamesOverlap ==
    \E player_name \in DOMAIN req.exposure_constraints :
        /\ SDExposureApplies(player_name)
        /\ Cardinality({x \in IDs : Name(x) = player_name}) > 1

SDBasicFeasible(A) ==
    /\ SDExactly1Captain(A)
    /\ SDExactly5Utility(A)
    /\ SDNoDuplicatePlayer(A)
    /\ SDSalaryCap(A)
    /\ SDDiversity(A)
    /\ SDExposure(A)

SDBasicSolutions == {A \in SDAssignments : SDBasicFeasible(A)}

\* Mutant: any feasible lineup is returned, not one of maximum points.
SDBasicOptimal_AnyFeasible == SDBasicSolutions

SDBasicOptimal ==
    LET solutions == SDBasicSolutions
        value == [A \in solutions |-> SDObjective(A)]
    IN  {A \in solutions : \A A2 \in solutions : value[A2] <= value[A]}

\* The lineup dictionary: the captain, then the utilities in row order.
SDLineup(A) ==
    LET captain == CHOOSE r \in A.captain_vars : TRUE
        utilities == Ascending(A.utility_vars)
    IN  [captain |-> captain,
         utilities |-> utilities,
         total_salary |-> SDSalary(A),
         total_projected_points |-> SDObjective(A),
         player_names |-> <<Name(captain)>>
                            \o [k \in 1..Len(utilities) |-> Name(utilities[k])]]

\* _validate_data
SDValidateData == Len(players_df) >= 6

SDDiversities == {2, 3}
\* The exposure caps asked for the athlete of the first row.
SDExposures == {<<0, 1>>, <<1, 2>>}
SDExposureRequests ==
    {<<>>} \cup {[name \in {players_df[1].Name} |-> e] : e \in SDExposures}

SDBasic_optimize ==
    /\ pc = "constructed" /\ opt = "SDBasic"
    /\ \E num_lineups \in 0..MaxLineups, player_diversity \in SDDiversities,
          exposure_constraints \in SDExposureRequests :
          req' = [num_lineups |-> num_lineups,
                  player_diversity |-> player_diversity,
                  exposure_constraints |-> exposure_constraints]
    /\ IF SDValidateData
       THEN pc' = "loop" /\ result' = result
       ELSE pc' = "returned" /\ result' = <<>>
    /\ i' = 0
    /\ lineups' = <<>> /\ previous_lineups' = <<>> /\ statuses' = <<>>
    /\ UNCHANGED <<opt, players_df, salary_cap, max_from_team, min_teams,
                   self_max_player_appearances, player_appearances>>

SDBasic_Accept ==
    /\ pc = "loop" /\ opt = "SDBasic" /\ i < req.num_lineups
    /\ ~SDExposureNamesOverlap
    /\ \E A \in SDBasicOptimal :
          /\ lineups' = Append(lineups, SDLineup(A))
          /\ previous_lineups' = Append(previous_lineups, SDLineup(A))
    /\ statuses' = Append(statuses, Optimal)
    /\ i' = i + 1
    /\ UNCHANGED <<opt, players_df, salary_cap, max_from_team, min_teams,
                   self_max_player_appearances, req, pc, player_appearances,
                   result>>

\* Mutant: a failed iteration forgets the lineups stored so far.
SDBasic_NotOptimal_ForgetsLineups ==
    /\ pc = "loop" /\ opt = "SDBasic" /\ i < req.num_lineups
    /\ ~SDExposureNamesOverlap
    /\ \E st \in NotOptimalStatuses(SDBasicSolutions) :
          statuses' = Append(statuses, st)
    /\ i' = i + 1
    /\ previous_lineups' = <<>>
    /\ UNCHANGED <<opt, players_df, salary_cap, max_from_team, min_teams,
                   self_max_player_appearances, req, pc, lineups,
                   player_appearances, result>>

\* "Could not find optimal solution": the loop goes on.
SDBasic_NotOptimal ==
    /\ pc = "loop" /\ opt = "SDBasic" /\ i < req.num_lineups
    /\ ~SDExposureNamesOverlap
    /\ \E st \in NotOptimalStatuses(SDBasicSolutions) :
          statuses' = Append(statuses, st)
    /\ i' = i + 1
    /\ UNCHANGED <<opt, players_df, salary_cap, max_from_team, min_teams,
                   self_max_player_appearances, req, pc, lineups,
                   previous_lineups, player_appearances, result>>

\* PulpError while the model is built: optimize() raises.
SDBasic_Raise ==
    /\ pc = "loop" /\ opt = "SDBasic" /\ i < req.num_lineups
    /\ SDExposureNamesOverlap
    /\ pc' = "raised"
    /\ UNCHANGED <<opt, players_df, salary_cap, max_from_team, min_teams,
                   self_max_player_appearances, req, i, lineups,
                   previous_lineups, player_appearances, statuses, result>>

\* return all_lineups
SDBasic_Return ==
    /\ pc = "loop" /\ opt = "SDBasic" /\ i = req.num_lineups
    /\ result' = lineups
    /\ pc' = "returned"
    /\ UNCHANGED <<opt, players_df, salary_cap, max_from_team, min_teams,
                   self_max_player_appearances, req, i, lineups,
                   previous_lineups, player_appearances, statuses>>

-----------------------------------------------------------------------------
(* NBA/WNBA showdown, advanced *)

\* random_factor = 1 + uniform(-randomness, randomness), in fifths: the draws
\* modelled leave every row at 1 or raise one row to 1 + randomness.
SDRandomDraws ==
    IF req.randomness[1] = 0 THEN {[r \in IDs |-> 5]}
    ELSE {[r \in IDs |-> 5]}
            \cup {[r \in IDs |-> IF r = boosted
                                    THEN 5 + (5 * req.randomness[1]) \div req.randomness[2]
                                    ELSE 5] : boosted \in IDs}

\* The objective over randomized_projections (in tenths).
SDAdvObjective(A, random_factor) ==
    3 * Sum([r \in IDs |-> AvgPointsPerGame(r) * random_factor[r]], A.captain_vars)
        + 2 * Sum([r \in IDs |-> AvgPointsPerGame(r) * random_factor[r]], A.utility_vars)

\* min_salary = int(self.salary_cap * min_salary_used)
SDMinSalary == (salary_cap * req.min_salary_used[1]) \div req.min_salary_used[2]

SDMinimumSalaryUsed(A) == SDSalary(A) >= 2 * SDMinSalary

SDStacking(A) ==
    req.stack_team # None =>
        LET stack_indices == {r \in IDs : Team(r) = req.stack_team}
        IN  stack_indices # {} =>
              SDSelectedAmong(A, stack_indices) >= req.stack_count

\* Mutant: the rows of the faded teams are excluded by a constraint.
SDAdvFeasible_FadeExcludes(A) ==
    /\ SDExactly1Captain(A)
    /\ SDExactly5Utility(A)
    /\ SDNoDuplicatePlayer(A)
    /\ SDSalaryCap(A)
    /\ SDMinimumSalaryUsed(A)
    /\ SDStacking(A)
    /\ SDDiversity(A)
    /\ SDExposure(A)
    /\ \A r \in A.captain_vars \cup A.utility_vars :
          Team(r) \notin Range(req.fade_teams)

SDAdvFeasible(A) ==
    /\ SDExactly1Captain(A)
    /\ SDExactly5Utility(A)
    /\ SDNoDuplicatePlayer(A)
    /\ SDSalaryCap(A)
    /\ SDMinimumSalaryUsed(A)
    /\ SDStacking(A)
    /\ SDDiversity(A)
    /\ SDExposure(A)

SDAdvSolutions == {A \in SDAssignments : SDAdvFeasible(A)}

SDAdvOptimal(random_factor) ==
    LET solutions == SDAdvSolutions
        value == [A \in solutions |-> SDAdvObjective(A, random_factor)]
    IN  {A \in solutions : \A A2 \in solutions : value[A2] <= value[A]}

SDAdvLineup(A) ==
    SDLineup(A) @@
    [teams |-> [team \in {Team(r) : r \in A.captain_vars \cup A.utility_vars} |->
                  Cardinality({r \in A.captain_vars \cup A.utility_vars :
                                  Team(r) = team})]]

\* self.players.loc[mask, 'AvgPointsPerGame'] *= 0.8 for every faded team.
RECURSIVE SDFade(_, _)
SDFade(df, fade_teams) ==
    IF fade_teams = <<>> THEN df
    ELSE SDFade([r \in DOMAIN df |->
                    IF df[r].TeamAbbrev = Head(fade_teams)
                    THEN [df[r] EXCEPT !.AvgPointsPerGame = (@ * 4) \div 5]
                    ELSE df[r]],
                Tail(fade_teams))

SDStackRequests == {<<None, 3>>, <<"LVA", 3>>, <<"LVA", 5>>}
SDFadeRequests == {<<>>, <<"LVA">>}
SDMinSalaryFractions == {<<1, 2>>, <<19, 20>>}
SDNoRandomness == <<0, 1>>
SDRandomness == <<1, 5>>

\* The calls modelled: every combination of the options without randomness,
\* and randomness with the other options at their plainest.
SDAdvRequests ==
    {[num_lineups |-> n, player_diversity |-> d, exposure_constraints |-> e,
      stack_team |-> s[1], stack_count |-> s[2], fade_teams |-> f,
      randomness |-> SDNoRandomness, min_salary_used |-> m] :
        n \in 0..MaxLineups, d \in SDDiversities, e \in SDExposureRequests,
        s \in SDStackRequests, f \in SDFadeRequests, m \in SDMinSalaryFractions}
    \cup
    {[num_lineups |-> n, player_diversity |-> d, exposure_constraints |-> <<>>,
      stack_team |-> None, stack_count |-> 3, fade_teams |-> <<>>,
      randomness |-> SDRandomness, min_salary_used |-> <<1, 2>>] :
        n \in 0..MaxRandomLineups, d \in SDDiversities}

SDAdv_optimize ==
    /\ pc = "constructed" /\ opt = "SDAdv"
    /\ \E request \in SDAdvRequests :
          /\ req' = request
          /\ IF SDValidateData
             THEN /\ pc' = "loop" /\ result' = result
                  /\ players_df' = SDFade(players_df, request.fade_teams)
             ELSE /\ pc' = "returned" /\ result' = <<>>
                  /\ players_df' = players_df
    /\ i' = 0
    /\ lineups' = <<>> /\ previous_lineups' = <<>> /\ statuses' = <<>>
    /\ UNCHANGED <<opt, salary_cap, max_from_team, min_teams,
                   self_max_player_appearances, player_appearances>>

SDAdv_Accept ==
    /\ pc = "loop" /\ opt = "SDAdv" /\ i < req.num_lineups
    /\ ~SDExposureNamesOverlap
    /\ \E random_factor \in SDRandomDraws :
          \E A \in SDAdvOptimal(random_factor) :
              /\ lineups' = Append(lineups, SDAdvLineup(A))
              /\ previous_lineups' = Append(previous_lineups, SDAdvLineup(A))
    /\ statuses' = Append(statuses, Optimal)
    /\ i' = i + 1
    /\ UNCHANGED <<opt, players_df, salary_cap, max_from_team, min_teams,
                   self_max_player_appearances, req, pc, player_appearances,
                   result>>

\* "Could not find optimal solution": the loop goes on.
SDAdv_NotOptimal ==
    /\ pc = "loop" /\ opt = "SDAdv" /\ i < req.num_lineups
    /\ ~SDExposureNamesOverlap
    /\ \E st \in NotOptimalStatuses(SDAdvSolutions) :
          statuses' = Append(statuses, st)
    /\ i' = i + 1
    /\ UNCHANGED <<opt, players_df, salary_cap, max_from_team, min_teams,
                   self_max_player_appearances, req, pc, lineups,
                   previous_lineups, player_appearances, result>>

\* PulpError while the model is built: optimize() raises.
SDAdv_Raise ==
    /\ pc = "loop" /\ opt = "SDAdv" /\ i < req.num_lineups
    /\ SDExposureNamesOverlap
    /\ pc' = "raised"
    /\ UNCHANGED <<opt, players_df, salary_cap, max_from_team, min_teams,
                   self_max_player_appearances, req, i, lineups,
                   previous_lineups, player_appearances, statuses, result>>

\* return all_lineups
SDAdv_Return ==
    /\ pc = "loop" /\ opt = "SDAdv" /\ i = req.num_lineups
    /\ result' = lineups
    /\ pc' = "returned"
    /\ UNCHANGED <<opt, players_df, salary_cap, max_from_team, min_teams,
                   self_max_player_appearances, req, i, lineups,
                   previous_lineups, player_appearances, statuses>>

-----------------------------------------------------------------------------
(* The optimizer after construction *)

\* <<max_from_team, min_teams, max_player_appearances>>; the last is 1 by
\* default and in the tests.
F1TeamLimits == {<<3, 2, 1>>, <<2, 2, 2>>, <<3, 4, 1>>}

InitF1Adv ==
    /\ opt = "F1Adv"
    /\ players_df \in F1Csvs
    /\ salary_cap \in F1Caps
    /\ \E limits \in F1TeamLimits :
          /\ max_from_team = limits[1] /\ min_teams = limits[2]
          /\ self_max_player_appearances = limits[3]

InitMLBBasic ==
    /\ opt = "MLBBasic"
    /\ players_df \in MLBCsvs
    /\ salary_cap \in MLBCaps
    /\ max_from_team = 0 /\ min_teams = 0
    /\ self_max_player_appearances = 0

\* <<max_players_from_team, min_teams>>
MLBTeamLimits == {<<5, 3>>, <<4, 2>>, <<5, 4>>}

InitMLBAdv ==
    /\ opt = "MLBAdv"
    /\ players_df \in MLBCsvs
    /\ salary_cap \in MLBCaps
    /\ \E limits \in MLBTeamLimits :
          max_from_team = limits[1] /\ min_teams = limits[2]
    /\ self_max_player_appearances = 0

InitF1Basic ==
    /\ opt = "F1Basic"
    /\ players_df \in F1Csvs
    /\ salary_cap \in F1Caps
    /\ max_from_team = 0 /\ min_teams = 0
    /\ self_max_player_appearances = 0

InitSDBasic ==
    /\ opt = "SDBasic"
    /\ players_df \in SDCsvs
    /\ salary_cap \in SDCaps
    /\ max_from_team = 0 /\ min_teams = 0
    /\ self_max_player_appearances = 0

InitSDAdv ==
    /\ opt = "SDAdv"
    /\ players_df \in SDCsvs
    /\ salary_cap \in SDCaps
    /\ max_from_team = 0 /\ min_teams = 0
    /\ self_max_player_appearances = 0

Init ==
    /\ \/ InitF1Basic
       \/ InitF1Adv
       \/ InitMLBBasic
       \/ InitMLBAdv
       \/ InitSDBasic
       \/ InitSDAdv
    /\ req = NoCall
    /\ pc = "constructed"
    /\ i = 0
    /\ lineups = <<>>
    /\ previous_lineups = <<>>
    /\ player_appearances = <<>>
    /\ statuses = <<>>
    /\ result = <<>>

Next ==
    \/ F1Basic_optimize
    \/ F1Basic_Accept
    \/ F1Basic_NotOptimal
    \/ F1Basic_Return
    \/ F1Adv_optimize
    \/ F1Adv_Accept
    \/ F1Adv_NotOptimal
    \/ F1Adv_Return
    \/ MLBBasic_optimize
    \/ MLBBasic_Accept
    \/ MLBBasic_NotOptimal
    \/ MLBBasic_Return
    \/ MLBAdv_optimize
    \/ MLBAdv_optimize_TypeError
    \/ MLBAdv_Accept
    \/ MLBAdv_NotOptimal
    \/ MLBAdv_Return
    \/ SDBasic_optimize
    \/ SDBasic_Accept
    \/ SDBasic_NotOptimal
    \/ SDBasic_Raise
    \/ SDBasic_Return
    \/ SDAdv_optimize
    \/ SDAdv_Accept
    \/ SDAdv_NotOptimal
    \/ SDAdv_Raise
    \/ SDAdv_Return

Spec == Init /\ [][Next]_vars

-----------------------------------------------------------------------------
(* Properties *)

Returned == pc = "returned"
IsF1 == opt \in {"F1Basic", "F1Adv"}
IsMLB == opt \in {"MLBBasic", "MLBAdv"}
IsSD == opt \in {"SDBasic", "SDAdv"}
IsAdvanced == opt \in {"F1Adv", "MLBAdv", "SDAdv"}

\* The rows of a lineup, whatever its shape.
Members(l) == IF IsSD THEN {l.captain} \cup Range(l.utilities) ELSE Range(l.ids)

\* What the members of a lineup cost, in halves: 1.5x the listed salary for
\* a showdown captain, the listed salary for every other row.
Charge(l) ==
    IF IsSD
    THEN 3 * Salary(l.captain) + 2 * Sum([r \in IDs |-> Salary(r)], Range(l.utilities))
    ELSE 2 * Sum([r \in IDs |-> Salary(r)], Range(l.ids))

\* total_salary as the lineup reports it, in halves.
Reported(l) == IF IsSD THEN l.total_salary ELSE 2 * l.total_salary

\* C1: every returned lineup costs at most the salary cap, a showdown captain
\* at 1.5x the listed salary, and reports that cost as its total salary.
C1_SalaryWithinCap ==
    Returned =>
        \A k \in DOMAIN result :
            /\ Charge(result[k]) <= 2 * salary_cap
            /\ Reported(result[k]) = Charge(result[k])

\* A returned showdown lineup within half a salary unit of the cap.
C1_Witness ==
    /\ Returned /\ IsSD
    /\ \E k \in DOMAIN result : Charge(result[k]) >= 2 * salary_cap - 1

\* C2 (as claimed): every lineup an advanced optimize() returns costs at
\* least salary_cap x min_salary_used, also when that product is no integer.
C2_MinSalaryUsed ==
    (Returned /\ IsAdvanced) =>
        \A k \in DOMAIN result :
            Charge(result[k]) * req.min_salary_used[2]
                >= 2 * salary_cap * req.min_salary_used[1]

Count(l, position) == Cardinality({k \in DOMAIN l.ids : Position(l.ids[k]) = position})

\* C3: every returned lineup fills the quotas of its format exactly: F1 1 CPT,
\* 4 D, 1 CNSTR of 6 rows; MLB 2 P, 1 C, 1 1B, 1 2B, 1 3B, 1 SS, 3 OF of 10
\* rows; showdown one captain and five utility players.
C3_PositionQuotas ==
    Returned =>
        \A k \in DOMAIN result :
            LET l == result[k]
            IN  CASE IsF1 ->
                       /\ Len(l.ids) = 6 /\ Len(l.players) = 6
                       /\ Cardinality(Range(l.ids)) = 6
                       /\ Count(l, "CPT") = 1 /\ Count(l, "D") = 4
                       /\ Count(l, "CNSTR") = 1
                  [] IsMLB ->
                       /\ Len(l.ids) = 10 /\ Len(l.players) = 10
                       /\ Cardinality(Range(l.ids)) = 10
                       /\ Count(l, "P") = 2 /\ Count(l, "C") = 1
                       /\ Count(l, "1B") = 1 /\ Count(l, "2B") = 1
                       /\ Count(l, "3B") = 1 /\ Count(l, "SS") = 1
                       /\ Count(l, "OF") = 3
                  [] IsSD ->
                       /\ l.captain \in IDs
                       /\ Len(l.utilities) = 5
                       /\ Cardinality(Range(l.utilities)) = 5
                       /\ l.captain \notin Range(l.utilities)
                       /\ Len(l.player_names) = 6

\* A returned F1 lineup from a pool with more D rows than a lineup takes.
C3_Witness ==
    /\ Returned /\ IsF1 /\ Len(result) >= 1
    /\ Cardinality({r \in IDs : Position(r) = "D"}) > 4

\* The players two lineups share: row IDs in F1 and MLB, names in showdown.
Shared(a, b) ==
    IF IsSD THEN Cardinality(Range(a.player_names) \cap Range(b.player_names))
    ELSE Cardinality(Range(a.ids) \cap Range(b.ids))

RosterSize == IF IsMLB THEN 10 ELSE 6

DiversityThreshold ==
    CASE opt = "F1Basic" -> 2
      [] opt = "MLBBasic" -> 3
      [] opt \in {"F1Adv", "MLBAdv"} -> req.lineup_diversity
      [] IsSD -> req.player_diversity

\* C4: any two lineups of a returned batch share at most roster size minus
\* the diversity threshold players.
C4_PairwiseDiversity ==
    Returned =>
        \A a, b \in DOMAIN result :
            a < b => Shared(result[a], result[b]) <= RosterSize - DiversityThreshold

\* A batch of three in which two lineups that are not neighbours in
\* generation order share exactly the number allowed.
C4_Witness ==
    /\ Returned /\ Len(result) = 3 /\ Len(lineups) = 3
    /\ Shared(lineups[1], lineups[3]) = RosterSize - DiversityThreshold

Appearances(batch, player_id) ==
    Cardinality({k \in DOMAIN batch : player_id \in Range(batch[k].ids)})

\* C5: with max_player_appearances = C, no player is in more than C lineups
\* of the batch the F1 advanced optimizer returns, and the loop never selects
\* a player whose count has reached C.
C5_AppearanceCap ==
    (opt = "F1Adv" /\ pc # "constructed") =>
        \A C \in req.max_player_appearances :
            /\ \A player_id \in IDs : Appearances(lineups, player_id) <= C
            /\ Returned =>
                  \A player_id \in IDs : Appearances(result, player_id) <= C

\* A returned batch of at least two lineups with a player at the cap of 2.
C5_Witness ==
    /\ opt = "F1Adv" /\ Returned /\ Len(result) >= 2
    /\ req.max_player_appearances = {2}
    /\ \E player_id \in IDs : Appearances(result, player_id) = 2

\* C6: no returned F1 lineup holds two rows of the same Name.
C6_OneVersionPerDriver ==
    (Returned /\ IsF1) =>
        \A k \in DOMAIN result :
            \A a, b \in Range(result[k].ids) : a # b => Name(a) # Name(b)

\* A returned F1 lineup whose captain also has a D row in the pool.
C6_Witness ==
    /\ Returned /\ IsF1
    /\ \E k \in DOMAIN result :
          \E c \in Range(result[k].ids), d \in IDs :
              Position(c) = "CPT" /\ Position(d) = "D" /\ Name(c) = Name(d)

\* C7 (as claimed): the six names of a returned showdown lineup are pairwise
\* distinct, also in a pool that lists an athlete on more than one row.
C7_DistinctNames ==
    (Returned /\ IsSD) =>
        \A k \in DOMAIN result :
            Cardinality(Range(result[k].player_names)) = 6

\* C8: when the solve of iteration 0 is Infeasible, optimize() returns no
\* lineup.
C8_FirstInfeasibleEmpty ==
    (Returned /\ Len(statuses) >= 1 /\ statuses[1] = Infeasible) => result = <<>>

\* A call for several lineups, of an optimizer that goes on after a failed
\* solve, that returned after an infeasible iteration 0.
C8_Witness ==
    /\ Returned /\ Len(statuses) >= 2 /\ statuses[1] = Infeasible
    /\ result = <<>>

\* C9 (as claimed): when the iterations before it were accepted, an
\* Infeasible solve of an iteration after the first is the last solve of the
\* call (no further model is solved), and the call returns the lineups
\* accepted before it.
C9_InfeasibleStopsLoop ==
    \A k \in DOMAIN statuses :
        (k > 1 /\ statuses[k] = Infeasible
               /\ \A j \in 1..(k - 1) : statuses[j] = Optimal) =>
            /\ Len(statuses) = k
            /\ Returned => Len(result) = k - 1

\* C10 (as claimed): a call in which a solve ended in a solver error does
\* not return a list of lineups.
C10_ErrorSurfaced ==
    Returned => \A k \in DOMAIN statuses : statuses[k] # Undefined

\* C11 (as claimed): with min_teams above the number of distinct teams of the
\* pool, an advanced F1 or MLB optimizer hands no model to the solver.
C11_MinTeamsRejectedBeforeSolve ==
    (opt \in {"F1Adv", "MLBAdv"} /\ min_teams > Cardinality(teams)) =>
        statuses = <<>>

\* The teams a lineup's players come from: in F1 the teams of its CPT and D
\* rows, in MLB the teams of all its rows.
LineupTeams(l) ==
    IF IsF1 THEN {Team(r) : r \in {x \in Range(l.ids) : Position(x) # "CNSTR"}}
    ELSE {Team(r) : r \in Range(l.ids)}

\* C12 (as claimed): every lineup an advanced F1 or MLB optimize() returns
\* has players from at least min_teams distinct teams.
C12_MinTeamsRepresented ==
    (Returned /\ opt \in {"F1Adv", "MLBAdv"}) =>
        \A k \in DOMAIN result :
            Cardinality(LineupTeams(result[k])) >= min_teams

\* The rows of a lineup that are on a team.
OnTeam(l, team) == {r \in Range(l.ids) : Team(r) = team}

\* C13 (as claimed): in every lineup an advanced F1 or MLB optimize()
\* returns, no team has more than the configured maximum of the lineup's
\* players, every listed player counted.
C13_MaxFromTeam ==
    (Returned /\ opt \in {"F1Adv", "MLBAdv"}) =>
        \A k \in DOMAIN result :
            \A team \in teams :
                Cardinality(OnTeam(result[k], team)) <= max_from_team

\* C14 (as claimed): the size of teams_used of a returned lineup is the
\* number of distinct teams among all the rows of the lineup.
C14_TeamsUsedAllMembers ==
    (Returned /\ opt \in {"F1Adv", "MLBAdv"}) =>
        \A k \in DOMAIN result :
            Cardinality(result[k].teams_used)
                = Cardinality({Team(r) : r \in Range(result[k].ids)})

\* C14 (amended): teams_used of a returned lineup is the set of the distinct
\* teams of the lineup's rows, in F1 of its CPT and D rows only (the
\* constructor's team is not counted).
C14_TeamsUsedOfDrivers ==
    (Returned /\ opt \in {"F1Adv", "MLBAdv"}) =>
        \A k \in DOMAIN result :
            /\ result[k].teams_used = LineupTeams(result[k])
            /\ Cardinality(result[k].teams_used)
                  = Cardinality(LineupTeams(result[k]))

\* A returned F1 lineup whose constructor is of a team none of its drivers is
\* on.
C14_Witness ==
    /\ Returned /\ opt = "F1Adv"
    /\ \E k \in DOMAIN result :
          \E c \in Range(result[k].ids) :
              /\ Position(c) = "CNSTR"
              /\ Team(c) \notin result[k].teams_used

\* The rows of the pool a stack on the team can be met with: in F1 the CPT
\* and D rows of the team, elsewhere all its rows.
StackEligible(team) ==
    IF IsF1 THEN {r \in IDs : Team(r) = team /\ Position(r) # "CNSTR"}
    ELSE {r \in IDs : Team(r) = team}

\* C15: with a stack_team that is in the pool, every lineup an advanced
\* optimize() returns holds at least min(stack_count, eligible rows of the
\* team in the pool) eligible rows of that team.
C15_StackCount ==
    (Returned /\ IsAdvanced /\ req.stack_team # None
              /\ req.stack_team \in teams) =>
        \A k \in DOMAIN result :
            Cardinality(Members(result[k]) \cap StackEligible(req.stack_team))
                >= Min(req.stack_count,
                       Cardinality(StackEligible(req.stack_team)))

\* A returned F1 lineup on a stack request for more drivers than the team
\* has, holding exactly the drivers the team has.
C15_Witness ==
    /\ Returned /\ opt = "F1Adv" /\ req.stack_team # None
    /\ StackEligible(req.stack_team) # {}
    /\ req.stack_count > Cardinality(StackEligible(req.stack_team))
    /\ \E k \in DOMAIN result :
          Cardinality(Members(result[k]) \cap StackEligible(req.stack_team))
              = Cardinality(StackEligible(req.stack_team))

\* The athletes of the pool a stack on the team can be met with.
StackAvailable(team) == Cardinality({Name(r) : r \in StackEligible(team)})

\* Whether the model of iteration 0 has a solution when its stacking
\* constraint asks for n eligible rows of stack_team (read in a state with no
\* accepted lineup, where the constraints are those of iteration 0).
FeasibleWithStack(n) ==
    CASE opt = "F1Adv" ->
           \E S \in RosterAssignments[Len(players_df)][F1_roster_spots] :
               /\ F1PositionRequirements(S) /\ F1SalaryCap(S)
               /\ F1MinSalaryUsed(S) /\ F1MaxFromTeam(S)
               /\ F1AdvOneVersion(S) /\ F1AppearanceLimit(S)
               /\ Cardinality(S \cap StackEligible(req.stack_team)) >= n
               /\ \E T \in SUBSET teams : F1AdvTeamConstraints(S, T)
      [] opt = "MLBAdv" ->
           \E S \in RosterAssignments[Len(players_df)][MLB_roster_spots] :
               /\ MLBPositionRequirements(S) /\ MLBSalaryCap(S)
               /\ MLBMinSalaryUsed(S) /\ MLBMaxFromTeam(S)
               /\ Cardinality(S \cap StackEligible(req.stack_team)) >= n
               /\ \E T \in SUBSET teams : MLBAdvTeamConstraints(S, T)
      [] opt = "SDAdv" ->
           \E A \in SDAssignments :
               /\ SDExactly1Captain(A) /\ SDExactly5Utility(A)
               /\ SDNoDuplicatePlayer(A) /\ SDSalaryCap(A)
               /\ SDMinimumSalaryUsed(A) /\ SDExposure(A)
               /\ SDSelectedAmong(A, StackEligible(req.stack_team)) >= n

\* C16 (as claimed): a stack_count above the number of athletes available on
\* stack_team is clamped to that number: when the request is feasible with
\* stack_count set to the number available and no solve fails, optimize()
\* returns a non-empty batch.
C16_StackClamped ==
    (/\ Returned /\ IsAdvanced /\ req.num_lineups >= 1
     /\ req.stack_team # None
     /\ StackAvailable(req.stack_team) >= 1
     /\ req.stack_count > StackAvailable(req.stack_team)
     /\ \A k \in DOMAIN statuses : statuses[k] # Undefined
     /\ result = <<>>)
        => ~FeasibleWithStack(StackAvailable(req.stack_team))

\* The total points a lineup reports.
TotalPoints(l) == IF IsSD THEN l.total_projected_points ELSE l.total_points

\* C17 (as claimed): the list optimize() returns is in descending order of
\* total points, for every optimizer.
C17_SortedByTotalPoints ==
    Returned =>
        \A k \in 1..(Len(result) - 1) :
            TotalPoints(result[k]) >= TotalPoints(result[k + 1])

\* C18 (as claimed): no step of optimize() changes a row of the optimizer's
\* player pool, whatever the request.
C18_PoolUnchanged == [][players_df' = players_df]_vars

\* optimize() has ended: it returned, or an exception left it.
Ended == pc \in {"returned", "raised"}

\* What a call for num_lineups lineups has used and produced so far.
WithinCount ==
    pc # "constructed" =>
        /\ i <= req.num_lineups
        /\ Len(statuses) <= req.num_lineups
        /\ Len(lineups) <= Len(statuses)
        /\ Returned => Len(result) <= req.num_lineups

\* The steps optimize() can still take: the iterations left, the step out of
\* the loop and the return.
StepsLeft ==
    CASE pc = "constructed" -> MaxLineups + 3
      [] pc = "loop" -> (req.num_lineups - i) + 2
      [] pc = "after_loop" -> 1
      [] Ended -> 0

\* C19: a call of optimize() for n lineups solves at most n models and
\* returns at most n lineups, and it terminates: every step of the call
\* leaves fewer steps to take, so no call runs for ever.
C19_BoundedAndTerminates ==
    /\ []WithinCount
    /\ [][StepsLeft' < StepsLeft /\ StepsLeft' >= 0]_vars

\* A call for the largest count that returned fewer lineups than asked for
\* after as many solves as lineups asked for.
C19_Witness ==
    /\ Returned /\ req.num_lineups = MaxLineups
    /\ Len(statuses) = MaxLineups
    /\ Len(result) \in 1..(MaxLineups - 1)

\* The lineups of a showdown batch that list the name.
Listing(batch, player_name) ==
    {k \in DOMAIN batch : player_name \in Range(batch[k].player_names)}

\* floor(e x num_lineups) for the exposure e asked for the name.
ExposureCap(player_name) ==
    (req.exposure_constraints[player_name][1] * req.num_lineups)
        \div req.exposure_constraints[player_name][2]

\* C20: in the showdown optimizers a player named in exposure_constraints
\* with exposure e is in at most floor(e x num_lineups) lineups of the batch,
\* in none when e = 0, while the batch is built and when it is returned.
C20_ExposureCap ==
    (IsSD /\ pc # "constructed") =>
        \A player_name \in DOMAIN req.exposure_constraints :
            /\ Cardinality(Listing(lineups, player_name))
                  <= ExposureCap(player_name)
            /\ req.exposure_constraints[player_name][1] = 0
                  => Listing(lineups, player_name) = {}
            /\ Returned =>
                  Cardinality(Listing(result, player_name))
                      <= ExposureCap(player_name)

\* A returned batch of at least two lineups in which a player with a positive
\* exposure is in as many lineups as the exposure allows, and not in all.
C20_Witness ==
    /\ IsSD /\ Returned /\ Len(result) >= 2
    /\ \E player_name \in DOMAIN req.exposure_constraints :
          /\ ExposureCap(player_name) >= 1
          /\ Cardinality(Listing(result, player_name)) = ExposureCap(player_name)

\* The file the showdown pool was loaded from.
LoadedCsv ==
    CHOOSE csv \in SDCsvs :
        /\ Len(csv) = Len(players_df)
        /\ \A r \in DOMAIN csv : csv[r].Name = players_df[r].Name

\* Whether A meets the constraints of the first model of the request when
\* the pool is the loaded file and no team is faded.
FeasibleWithoutFade(A) ==
    LET csv == LoadedCsv
        charged == 3 * Sum([r \in DOMAIN csv |-> csv[r].Salary], A.captain_vars)
                     + 2 * Sum([r \in DOMAIN csv |-> csv[r].Salary], A.utility_vars)
        stack_indices == {r \in DOMAIN csv : csv[r].TeamAbbrev = req.stack_team}
    IN  /\ Cardinality(A.captain_vars) = 1
        /\ Cardinality(A.utility_vars) = 5
        /\ A.captain_vars \cap A.utility_vars = {}
        /\ charged <= 2 * salary_cap
        /\ charged >= 2 * ((salary_cap * req.min_salary_used[1])
                              \div req.min_salary_used[2])
        /\ (req.stack_team # None /\ stack_indices # {}) =>
              Cardinality(stack_indices \cap (A.captain_vars \cup A.utility_vars))
                  >= req.stack_count
        /\ \A player_name \in DOMAIN req.exposure_constraints :
              LET e == req.exposure_constraints[player_name]
              IN  (e[1] = 0 \/ (e[1] * req.num_lineups) \div e[2] <= 0) =>
                    \A r \in A.captain_vars \cup A.utility_vars :
                        csv[r].Name # player_name

\* C21: fade_teams only scales the projections of the faded teams' rows by
\* 0.8: the first model of a call has the same feasible lineups as without
\* fade, and a call with fade whose solves did not fail returns an empty
\* batch only when the model without fade has no feasible lineup.
C21_FadeIsSoft ==
    (opt = "SDAdv" /\ pc # "constructed" /\ SDValidateData) =>
        /\ \A r \in IDs :
              /\ players_df[r].Salary = LoadedCsv[r].Salary
              /\ players_df[r].TeamAbbrev = LoadedCsv[r].TeamAbbrev
              /\ players_df[r].AvgPointsPerGame =
                    IF Team(r) \in Range(req.fade_teams)
                    THEN (LoadedCsv[r].AvgPointsPerGame * 4) \div 5
                    ELSE LoadedCsv[r].AvgPointsPerGame
        /\ (pc = "loop" /\ i = 0 /\ req.fade_teams # <<>>) =>
              \A A \in SDAssignments : SDAdvFeasible(A) <=> FeasibleWithoutFade(A)
        /\ (/\ Returned /\ result = <<>> /\ req.num_lineups >= 1
            /\ req.fade_teams # <<>>
            /\ \A k \in DOMAIN statuses : statuses[k] # Undefined) =>
              \A A \in SDAssignments : ~FeasibleWithoutFade(A)

\* A returned batch of a call that fades a team, with a lineup whose captain
\* is of the faded team.
C21_Witness ==
    /\ opt = "SDAdv" /\ Returned /\ req.fade_teams # <<>>
    /\ \E k \in DOMAIN result :
          Team(result[k].captain) \in Range(req.fade_teams)

\* C22 (as claimed): the MLB advanced optimize() accepts an appearance cap
\* max_player_appearances = C, and no player is in more than C lineups of the
\* batch it returns.
C22_AppearanceCapAccepted ==
    (opt = "MLBAdv" /\ pc # "constructed"
     /\ "max_player_appearances" \in DOMAIN req) =>
        /\ pc # "raised"
        /\ Returned =>
              \A r \in IDs :
                  Cardinality({k \in DOMAIN result : r \in Members(result[k])})
                      <= req.max_player_appearances

\* The teams the selected players of an assignment come from: in F1 the
\* teams of its CPT and D rows, in MLB the teams of all its rows.
SelectedTeams(S) ==
    IF IsF1 THEN {Team(r) : r \in {x \in S : Position(x) # "CNSTR"}}
    ELSE {Team(r) : r \in S}

\* C23 (as claimed): in every solution of an advanced F1 or MLB model the
\* team variable of a team of the pool is 1 exactly when a player of that
\* team is selected, so the team variables at 1 are the teams selected.
C23_TeamVarsMatchSelection ==
    (opt \in {"F1Adv", "MLBAdv"} /\ pc = "loop" /\ i < req.num_lineups) =>
        \A T \in SUBSET teams :
            IF opt = "F1Adv"
            THEN \A S \in F1AdvSolutions :
                    F1AdvTeamConstraints(S, T) => T = SelectedTeams(S)
            ELSE \A S \in MLBAdvSolutions :
                    MLBAdvTeamConstraints(S, T) => T = SelectedTeams(S)

\* The number of solves that ended Optimal so far.
AcceptedCount == Cardinality({k \in DOMAIN statuses : statuses[k] = Optimal})

\* C24: during and after an F1 advanced optimize(), player_appearances[p]
\* is the number of accepted lineups that contain p: all zero before the
\* first accept, one more for each member of an accepted lineup, left alone
\* by a solve that is not Optimal, and summing to 6 per accepted lineup.
C24_AppearancesCountAccepted ==
    (opt = "F1Adv" /\ pc # "constructed") =>
        /\ DOMAIN player_appearances = IDs
        /\ Len(lineups) = AcceptedCount
        /\ \A p \in IDs : player_appearances[p] = Appearances(lineups, p)
        /\ Sum(player_appearances, IDs) = 6 * AcceptedCount

\* An F1 advanced call in which two lineups were accepted, a driver is in
\* both, and the third solve failed.
C24_Witness ==
    /\ opt = "F1Adv" /\ pc = "after_loop"
    /\ Len(lineups) = 2
    /\ Len(statuses) = 3 /\ statuses[3] # Optimal
    /\ \E p \in IDs : player_appearances[p] = 2

\* The 'points' of a listed player that the players list is sorted by:
\* F1 sorts by the captain-adjusted points, MLB by avg_points.
ListedPoints(r) == IF IsF1 THEN F1Points(r) ELSE AvgPointsPerGame(r)

PositionRank(r) ==
    IF IsF1 THEN F1_position_order[Position(r)]
    ELSE MLB_position_order[Position(r)]

\* C25: in every lineup an F1 or MLB optimize() returns, the players list
\* holds the lineup's rows ordered by position rank (F1: CPT, D, CNSTR; MLB:
\* P, C, 1B, 2B, 3B, SS, OF) and, within a position, by points descending.
C25_PlayersOrdered ==
    (Returned /\ (IsF1 \/ IsMLB)) =>
        \A k \in DOMAIN result :
            LET players == result[k].players
            IN  /\ Range(players) = Range(result[k].ids)
                /\ Len(players) = Len(result[k].ids)
                /\ \A a, b \in DOMAIN players :
                      a < b =>
                        \/ PositionRank(players[a]) < PositionRank(players[b])
                        \/ /\ PositionRank(players[a]) = PositionRank(players[b])
                           /\ ListedPoints(players[a]) >= ListedPoints(players[b])

\* A returned lineup whose rows were selected in an order that is neither
\* by position nor by points: a later row sorts before an earlier one, for
\* position in one pair and for points within a position in another.
C25_Witness ==
    /\ Returned /\ (IsF1 \/ IsMLB)
    /\ \E k \in DOMAIN result :
          LET ids == result[k].ids
          IN  /\ \E a, b \in DOMAIN ids :
                    a < b /\ PositionRank(ids[a]) > PositionRank(ids[b])
              /\ \E a, b \in DOMAIN ids :
                    /\ a < b
                    /\ PositionRank(ids[a]) = PositionRank(ids[b])
                    /\ ListedPoints(ids[a]) < ListedPoints(ids[b])

\* The rows with the highest AvgPointsPerGame / Salary of the pool.
HighestValueRows ==
    {r \in IDs : \A q \in IDs :
        AvgPointsPerGame(q) * Salary(r) <= AvgPointsPerGame(r) * Salary(q)}

LineupPoints(l) ==
    3 * AvgPointsPerGame(l.captain)
        + 2 * Sum([r \in IDs |-> AvgPointsPerGame(r)], Range(l.utilities))

C27_GeneratedInPointsOrder ==
    ((IsF1 \/ IsMLB) /\ pc # "constructed" /\ pc # "raised") =>
        /\ \A k \in DOMAIN lineups :
              k > 1 => lineups[k].total_points <= lineups[k - 1].total_points
        /\ Returned =>
              /\ Len(result) = Len(lineups)
              /\ \A k \in DOMAIN result :
                    result[k].total_points = lineups[k].total_points

\* A returned F1 or MLB batch of three lineups in which the points went
\* down from one accepted lineup to the next.
C27_Witness ==
    /\ (IsF1 \/ IsMLB) /\ Returned
    /\ Len(result) = 3
    /\ lineups[2].total_points < lineups[1].total_points

\* The optimizers whose loop goes on to the next iteration after a solve
\* that is not Optimal.
Continuing == opt \in {"F1Basic", "MLBBasic", "SDBasic", "SDAdv"}

\* The solves before the k-th that ended Optimal.
AcceptedBefore(k) ==
    Cardinality({j \in DOMAIN statuses : j < k /\ statuses[j] = Optimal})

\* C28: in the loops that continue after a failed solve, a failed iteration
\* leaves the stored previous lineups (and with them the exposure counts)
\* as they were, no iteration after an Infeasible one is accepted, and the
\* returned batch is made of the lineups accepted before the first
\* Infeasible iteration.
C28_InfeasibleStaysInfeasible ==
    (Continuing /\ pc # "constructed") =>
        /\ Len(previous_lineups) = AcceptedCount
        /\ Len(lineups) = AcceptedCount
        /\ \A k \in DOMAIN statuses :
              statuses[k] = Infeasible =>
                /\ \A j \in DOMAIN statuses : j > k => statuses[j] # Optimal
                /\ Len(lineups) = AcceptedBefore(k)
                /\ Returned =>
                      /\ Len(result) = AcceptedBefore(k)
                      /\ Range(result) = Range(lineups)

\* A returned batch of one lineup from a call for three: the second solve
\* was Infeasible and the loop went on to a third, Infeasible as well.
C28_Witness ==
    /\ Continuing /\ Returned
    /\ statuses = <<Optimal, Infeasible, Infeasible>>
    /\ Len(result) = 1

\* The athletes of an F1 lineup, by Name.
Athletes(l) == {Name(r) : r \in Range(l.ids)}

\* C29 (as claimed): any two lineups of an F1 batch generated with lineup
\* diversity d >= 1 differ in at least d athletes, identified by Name; in
\* particular no two lineups are the same athletes with the captain moved.
C29_DiversityByAthlete ==
    (Returned /\ IsF1 /\ DiversityThreshold >= 1) =>
        \A a, b \in DOMAIN result :
            a < b =>
                Cardinality(Athletes(result[a]) \ Athletes(result[b]))
                    >= DiversityThreshold

\* C30: the appearance cap given to the F1 advanced constructor is only
\* stored. In a call of optimize() without max_player_appearances no model
\* excludes a row for its appearances, whatever the stored value, and a
\* player can be in every lineup of a batch longer than the stored cap.
C30_ConstructorCapOnlyStored ==
    (opt = "F1Adv" /\ pc = "loop" /\ i < req.num_lineups
     /\ req.max_player_appearances = {}) =>
        \A S \in RosterAssignments[Len(players_df)][F1_roster_spots] :
            F1AppearanceLimit(S)

\* A batch from a call without the argument: more lineups than the stored
\* cap, and a player in all of them.
C30_Witness ==
    /\ opt = "F1Adv" /\ Returned
    /\ req.max_player_appearances = {}
    /\ Len(result) > self_max_player_appearances
    /\ \E p \in IDs : Appearances(result, p) = Len(result)

====
